---- MODULE Spec2Model ----
(***************************************************************************)
(* A model of wrdrv: the iw scan-output parser and access-point registry   *)
(* (core/wireless_monitor.py), the conflict resolver                       *)
(* (core/conflict_resolver.py), the interface controller                   *)
(* (core/interface_management.py), the monitor / managed commands and the  *)
(* scan sessions (core/scan.py, commands/scan_command.py).                 *)
(*                                                                         *)
(* A line of scan text is modelled after line.strip() and line.split():    *)
(* a sequence of whitespace-free tokens (strings).  The empty sequence is  *)
(* a blank line.  What Python does to the characters of a token (regular   *)
(* expressions, split('('), upper(), float(), int()) is given by tables    *)
(* over a fixed token vocabulary.                                          *)
(***************************************************************************)
EXTENDS Integers, Sequences, FiniteSets, TLC

\* ------------------------------------------------------------ bounds

\* Longest scan text, in lines, handed to the parser on its own.
MaxLines == 4

\* Longest scan text, in lines, the field rules are run on.
MaxFieldLines == 3

\* Most scans one session runs: the largest `loops`, and where an
\* open-ended session is no longer followed.
MaxLoops == 2

\* Longest scan text, in lines, one scan of a session prints.
MaxSessionLines == 2

VARIABLES
    \* _parse_iw_output, one line at a time
    raw_output,     \* the text being parsed: a sequence of lines
    line_no,        \* lines of raw_output the loop has consumed
    heap,           \* the dictionaries created so far, by reference
    networks,       \* the local list `networks`: references, in append order
    current_net,    \* the local `current_net`: a reference, 0 for None
    parse_pc,       \* "idle", "loop", "returned" or "raised"
    \* a WirelessMonitor and the calls made on it
    self_networks,  \* self.networks: [keys: insertion order, val: key -> dict]
    op,             \* the last method called on the monitor, "" before any
    msg,            \* what the last perform_scan returned
    results,        \* what the last get_results returned
    printed,        \* the rows the last get_results printed, in print order
    reverse_scan,   \* the flag the last get_results was called with
    \* history, for stating the claims
    last_reported,  \* BSSID -> the record of the latest successful scan's
                    \* last block that reported it
    merge_case,     \* what the last successful scan's merge met
    \* the system layer: one call of the resolver, the controller or a command
    sys_op,         \* the call made, "" before any
    args,           \* its arguments: [interface, flag]
    env,            \* what the call met: services, processes, interface fault
    cmds,           \* the external commands and signals the call issued
    outcome,        \* how the call ended: returned, raised or exited
    check_result,   \* the CheckResult returned by check / check_and_kill
    restored,       \* the list returned by restore
    message,        \* the message returned by ManagedCommand.execute
    output,         \* what the call printed, in order
    \* a scan session: core.scan.perform_scan or ScanCommand.execute
    session         \* its arguments, locals, position and end

parserVars == <<raw_output, line_no, heap, networks, current_net, parse_pc>>

monitorVars == <<self_networks, op, msg, results, printed, reverse_scan,
                 last_reported, merge_case>>

sysVars == <<sys_op, args, env, cmds, outcome, check_result, restored,
             message, output>>

sessionVars == <<session>>

vars == <<parserVars, monitorVars, sysVars, sessionVars>>

\* Most access-point blocks in the one scan text a ranking is taken of.
MaxAPs == 3

\* Longest scan text, in lines, of a scan in a sequence of scans.
MaxScanLines == 3

\* Most live processes in the process list of one call.
MaxProcs == 2

\* Most conflicting services running at one call.
MaxRunning == 2

\* ------------------------------------------------------------ tokens

\* tokens[1].split('(')[0]: the text of a token before its first '('.
BeforeParen(tok) ==
    CASE tok = "aa:bb:cc:dd:ee:01(on" -> "aa:bb:cc:dd:ee:01"
      [] tok = "(hidden)"             -> ""
      [] OTHER                        -> tok

\* RE_BSS_MAC.match: six groups of two hex digits separated by ':' or '-'.
RE_BSS_MAC(s) ==
    s \in {"aa:bb:cc:dd:ee:01", "AA:BB:CC:DD:EE:01",
           "aa:bb:cc:dd:ee:02", "aa-bb-cc-dd-ee-03"}

\* str.upper() on the address candidates.
Upper(s) ==
    CASE s = "aa:bb:cc:dd:ee:01" -> "AA:BB:CC:DD:EE:01"
      [] s = "aa:bb:cc:dd:ee:02" -> "AA:BB:CC:DD:EE:02"
      [] s = "aa-bb-cc-dd-ee-03" -> "AA-BB-CC-DD-EE-03"
      [] OTHER                   -> s

\* float as a lenient conversion would be: 0.0 for what is not a number,
\* never a ValueError.
float_or_zero(tok) ==
    CASE tok = "-40.00"  -> <<TRUE, -40>>
      [] tok = "-55.00"  -> <<TRUE, -55>>
      [] tok = "-70.00"  -> <<TRUE, -70>>
      [] OTHER           -> <<TRUE, 0>>

\* float(tok): <<TRUE, value>>, or <<FALSE, 0>> for a ValueError.  Values are
\* whole dBm.
float(tok) ==
    CASE tok = "-40.00"  -> <<TRUE, -40>>
      [] tok = "-55.00"  -> <<TRUE, -55>>
      [] tok = "-70.00"  -> <<TRUE, -70>>
      [] OTHER           -> <<FALSE, 0>>

\* The (\d+) group of the channel patterns on a token, as int(): the number
\* its leading digits spell, or -1 when it does not start with a digit.
LeadingDigits(tok) ==
    CASE tok = "6"   -> 6
      [] tok = "11"  -> 11
      [] tok = "36"  -> 36
      [] OTHER       -> -1

\* sub in tok, for the substrings the parser looks for.
TokHas(tok, sub) ==
    \/ tok = sub
    \/ sub = "CCMP" /\ tok \in {"CCMP/TKIP", "MyCCMPnet"}
    \/ sub = "TKIP" /\ tok \in {"CCMP/TKIP"}
    \/ sub = "WPS:" /\ tok \in {"(WPS:"}

\* sub in line, for a one-word substring.
LineHas(line, sub) == \E k \in 1..Len(line) : TokHas(line[k], sub)

\* phrase in line, for a phrase of several words separated by one blank.
LineHasPhrase(line, phrase) ==
    \E k \in 0..(Len(line) - Len(phrase)) :
        \A j \in 1..Len(phrase) : line[k + j] = phrase[j]

\* pattern.match(line): the phrase at the start of the line, then a blank and
\* at least one digit.  The number, or -1 when the pattern does not match.
MatchChannel(line, phrase) ==
    IF /\ Len(line) > Len(phrase)
       /\ \A j \in 1..Len(phrase) : line[j] = phrase[j]
    THEN LeadingDigits(line[Len(phrase) + 1])
    ELSE -1

DS_PHRASE == <<"DS", "Parameter", "set:", "channel">>
RE_DS_CHANNEL(line) == MatchChannel(line, DS_PHRASE)

PRIMARY_PHRASE == <<"primary", "channel:">>
RE_PRIMARY_CHANNEL(line) == MatchChannel(line, <<"*">> \o PRIMARY_PHRASE)

\* ------------------------------------------------------------ parser

\* The dictionary a valid BSS line creates.
NewNet(bssid) ==
    [BSSID |-> bssid, ESSID |-> <<"<Hidden>">>, Freq |-> 0, Channel |-> 0,
     Signal_dBm |-> -100, WPA |-> FALSE, WPA2 |-> FALSE, WEP |-> FALSE,
     TKIP |-> FALSE, CCMP |-> FALSE, WPS |-> FALSE]

\* The if / elif chain over the fields of the open record: the first branch
\* whose test holds is the only one taken.
FieldUpdate(net, line) ==
    LET token == line[1] IN
    IF token = "SSID:" THEN
        \* line[5:].strip(): the words after the token
        IF Len(line) > 1 THEN [net EXCEPT !.ESSID = Tail(line)] ELSE net
    ELSE IF LineHasPhrase(line, DS_PHRASE) THEN
        IF RE_DS_CHANNEL(line) >= 0
        THEN [net EXCEPT !.Channel = RE_DS_CHANNEL(line)] ELSE net
    ELSE IF LineHasPhrase(line, PRIMARY_PHRASE) THEN
        IF RE_PRIMARY_CHANNEL(line) >= 0
        THEN [net EXCEPT !.Channel = RE_PRIMARY_CHANNEL(line)] ELSE net
    ELSE IF token = "signal:" THEN
        \* IndexError (no second token) and ValueError are both passed over
        IF Len(line) > 1 /\ float(line[2])[1]
        THEN [net EXCEPT !.Signal_dBm = float(line[2])[2]] ELSE net
    ELSE IF token = "WPA:" THEN [net EXCEPT !.WPA = TRUE]
    ELSE IF token = "RSN:" THEN [net EXCEPT !.WPA2 = TRUE]
    ELSE IF token = "capability:" THEN
        IF LineHas(line, "Privacy") THEN [net EXCEPT !.WEP = TRUE] ELSE net
    ELSE IF LineHas(line, "WPS:") THEN [net EXCEPT !.WPS = TRUE]
    ELSE net

\* The branch of the if / elif chain that line takes, "" for none.
RuleOf(line) ==
    LET token == line[1] IN
    IF token = "SSID:" THEN "SSID"
    ELSE IF LineHasPhrase(line, DS_PHRASE) THEN "DS channel"
    ELSE IF LineHasPhrase(line, PRIMARY_PHRASE) THEN "primary channel"
    ELSE IF token = "signal:" THEN "signal"
    ELSE IF token = "WPA:" THEN "WPA"
    ELSE IF token = "RSN:" THEN "RSN"
    ELSE IF token = "capability:" THEN "capability"
    ELSE IF LineHas(line, "WPS:") THEN "WPS"
    ELSE ""

\* CipherUpdate as it would be with the two tests written as further elif
\* branches of the chain: reached only by a line no branch has taken.
CipherUpdateAsElif(net, line) ==
    IF RuleOf(line) # "" THEN net
    ELSE IF LineHas(line, "CCMP") THEN [net EXCEPT !.CCMP = TRUE]
    ELSE IF LineHas(line, "TKIP") THEN [net EXCEPT !.TKIP = TRUE]
    ELSE net

\* The two cipher tests that follow the chain on every line of an open record.
CipherUpdate(net, line) ==
    [net EXCEPT !.CCMP = @ \/ LineHas(line, "CCMP"),
                !.TKIP = @ \/ LineHas(line, "TKIP")]

\* The parser's locals.  Dictionaries are objects: heap[r] is the dictionary
\* with reference r, networks is the list of references appended so far, and
\* current_net is a reference or 0 for None.  raised names the exception that
\* left the loop, "" while there is none.
ParserStart ==
    [heap |-> <<>>, networks |-> <<>>, current_net |-> 0, raised |-> ""]

\* One pass of the loop body over one line.
ParseLine(st, line) ==
    IF line = <<>> THEN st
    ELSE IF line[1] = "BSS" THEN
        LET closed == IF st.current_net # 0
                      THEN Append(st.networks, st.current_net)
                      ELSE st.networks
        IN  IF Len(line) < 2
            THEN \* tokens[1] on a one-token line
                 [st EXCEPT !.networks = closed, !.raised = "IndexError"]
            ELSE LET mac_candidate == BeforeParen(line[2]) IN
                 IF RE_BSS_MAC(mac_candidate)
                 THEN [st EXCEPT !.networks = closed,
                                 !.heap = Append(@, NewNet(Upper(mac_candidate))),
                                 !.current_net = Len(st.heap) + 1]
                 ELSE \* no assignment to current_net: the reference stays
                      [st EXCEPT !.networks = closed]
    ELSE IF st.current_net = 0 THEN st
    ELSE [st EXCEPT !.heap[st.current_net] =
                        CipherUpdate(FieldUpdate(@, line), line)]

\* The code after the loop: an open record is appended.
ParseEnd(st) ==
    IF st.current_net # 0
    THEN [st EXCEPT !.networks = Append(@, st.current_net)]
    ELSE st

\* The returned list, as the dictionaries its references stand for.
Deref(st) == [k \in 1..Len(st.networks) |-> st.heap[st.networks[k]]]

RECURSIVE ParseLoop(_, _, _)
ParseLoop(st, text, k) ==
    IF st.raised # "" THEN st
    ELSE IF k > Len(text) THEN ParseEnd(st)
    ELSE ParseLoop(ParseLine(st, text[k]), text, k + 1)

\* _parse_iw_output(text): [raised, value], value being the returned list
\* when nothing was raised.
_parse_iw_output(text) ==
    LET st == ParseLoop(ParserStart, text, 1) IN
    [raised |-> st.raised,
     value  |-> IF st.raised = "" THEN Deref(st) ELSE <<>>]

\* ---------------------------------------------------------- registry

\* A dict keeps its keys in insertion order: keys is that order, val the
\* mapping.
EmptyDict == [keys |-> <<>>, val |-> <<>>]

\* DictSet as setdefault would do it: a key already there keeps its value.
DictSetKeepsOld(d, k, v) ==
    IF k \in DOMAIN d.val
    THEN d
    ELSE [keys |-> Append(d.keys, k),
          val  |-> [x \in DOMAIN d.val \cup {k} |->
                        IF x = k THEN v ELSE d.val[x]]]

\* d[k] = v: a key already there keeps its place and gets the new value; a new
\* key goes last.
DictSet(d, k, v) ==
    IF k \in DOMAIN d.val
    THEN [d EXCEPT !.val[k] = v]
    ELSE [keys |-> Append(d.keys, k),
          val  |-> [x \in DOMAIN d.val \cup {k} |->
                        IF x = k THEN v ELSE d.val[x]]]

\* list(d.values())
DictValues(d) == [i \in 1..Len(d.keys) |-> d.val[d.keys[i]]]

\* for net in scanned_networks: self.networks[net['BSSID']] = net
RECURSIVE MergeFrom(_, _, _)
MergeFrom(d, scanned_networks, k) ==
    IF k > Len(scanned_networks) THEN d
    ELSE MergeFrom(DictSet(d, scanned_networks[k].BSSID, scanned_networks[k]),
                   scanned_networks, k + 1)

Merge(d, scanned_networks) == MergeFrom(d, scanned_networks, 1)

Failure(why) == [tag |-> "FAILURE", why |-> why, found |-> 0]

Success(n) == [tag |-> "SUCCESS", why |-> "Scan Complete", found |-> n]

NoMsg == [tag |-> "", why |-> "", found |-> 0]

\* perform_scan as it would be if each successful scan started from an
\* empty registry (self.networks = {} before the merge).
perform_scan_fresh_registry(d, exists, returncode, scanned_networks) ==
    IF ~exists THEN [networks |-> d, msg |-> Failure("not found")]
    ELSE IF returncode # 0
    THEN [networks |-> d, msg |-> Failure("Scan failed")]
    ELSE IF scanned_networks.raised # ""
    THEN [networks |-> d, msg |-> Failure("Unexpected error")]
    ELSE [networks |-> Merge(EmptyDict, scanned_networks.value),
          msg |-> Success(Len(scanned_networks.value))]

\* perform_scan as it would be if the handlers of a failed scan command or
\* a failed parse dropped what was held (self.networks = {}).
perform_scan_failure_clears(d, exists, returncode, scanned_networks) ==
    IF ~exists THEN [networks |-> d, msg |-> Failure("not found")]
    ELSE IF returncode # 0
    THEN [networks |-> EmptyDict, msg |-> Failure("Scan failed")]
    ELSE IF scanned_networks.raised # ""
    THEN [networks |-> EmptyDict, msg |-> Failure("Unexpected error")]
    ELSE [networks |-> Merge(d, scanned_networks.value),
          msg |-> Success(Len(scanned_networks.value))]

\* WirelessMonitor.perform_scan on registry d: exists is whether
\* /sys/class/net/<interface> is there, returncode is the exit status of
\* `sudo iw dev <interface> scan`, and scanned_networks is what
\* self._parse_iw_output(proc.stdout) does on its output ([raised, value]).
\* The registry after the call and the message returned.
perform_scan(d, exists, returncode, scanned_networks) ==
    IF ~exists THEN [networks |-> d, msg |-> Failure("not found")]
    ELSE IF returncode # 0
    THEN \* check=True: CalledProcessError
         [networks |-> d, msg |-> Failure("Scan failed")]
    ELSE IF scanned_networks.raised # ""
    THEN \* except Exception
         [networks |-> d, msg |-> Failure("Unexpected error")]
    ELSE [networks |-> Merge(d, scanned_networks.value),
          msg |-> Success(Len(scanned_networks.value))]

\* ----------------------------------------------------------- ranking

\* InsertPlace as an ascending sort that is then reversed would do it: x goes
\* before the records of its own strength.
InsertPlaceBeforeEqual(sorted, x) ==
    Cardinality({i \in 1..Len(sorted) : sorted[i].Signal_dBm > x.Signal_dBm})

\* Where list.sort(key=Signal_dBm, reverse=True) puts x among the records
\* sorted so far: behind every record at least as strong (the sort is stable,
\* also with reverse=True).
InsertPlace(sorted, x) ==
    Cardinality({i \in 1..Len(sorted) : sorted[i].Signal_dBm >= x.Signal_dBm})

RECURSIVE SortFrom(_, _, _)
SortFrom(sorted, list, k) ==
    IF k > Len(list) THEN sorted
    ELSE LET place == InsertPlace(sorted, list[k]) IN
         SortFrom(SubSeq(sorted, 1, place) \o <<list[k]>>
                    \o SubSeq(sorted, place + 1, Len(sorted)),
                  list, k + 1)

\* networks_list.sort(key=lambda x: x['Signal_dBm'], reverse=True)
SortBySignal(list) == SortFrom(<<>>, list, 1)

\* {(i + 1): net for i, net in enumerate(networks_list)}: a dict, here as its
\* items in insertion order, each <<key, value>>.
Indexed(list) == [k \in 1..Len(list) |-> <<(k - 1) + 1, list[k]>>]

\* The mapping's value at n, from the items.
ItemValue(items, n) ==
    items[CHOOSE k \in 1..Len(items) : items[k][1] = n /\
            \A j \in (k + 1)..Len(items) : items[j][1] # n][2]

\* items[::-1]
Reversed(items) == [i \in 1..Len(items) |-> items[Len(items) + 1 - i]]

\* get_results as it would be with the flag handed to the sort
\* (reverse=not reverse_scan) instead of to the printing.
get_results_flag_in_sort(d, reverse) ==
    LET networks_list == DictValues(d) IN
    IF networks_list = <<>> THEN [value |-> <<>>, rows |-> <<>>]
    ELSE LET ranked == SortBySignal(networks_list)
             indexed_results ==
                 Indexed(IF reverse THEN Reversed(ranked) ELSE ranked)
         IN  [value |-> [n \in {indexed_results[k][1] :
                                  k \in 1..Len(indexed_results)} |->
                            ItemValue(indexed_results, n)],
              rows  |-> indexed_results]

\* WirelessMonitor.get_results on registry d: the dict returned (as a mapping
\* from index to record) and the rows printed, each row the index and the
\* record _print_network_row was given.
get_results(d, reverse) ==
    LET networks_list == DictValues(d) IN
    IF networks_list = <<>> THEN [value |-> <<>>, rows |-> <<>>]
    ELSE LET indexed_results == Indexed(SortBySignal(networks_list))
             items == indexed_results
         IN  [value |-> [n \in {indexed_results[k][1] :
                                  k \in 1..Len(indexed_results)} |->
                            ItemValue(indexed_results, n)],
              rows  |-> IF reverse THEN Reversed(items) ELSE items]

\* -------------------------------------------------- conflict resolver

PROCESSES ==
    {"wpa_action", "wpa_supplicant", "wpa_cli", "dhclient", "ifplugd",
     "dhcdbd", "dhcpcd", "udhcpc", "NetworkManager", "knetworkmanager",
     "avahi-autoipd", "avahi-daemon", "wlassistant", "wifibox", "net_applet",
     "wicd-daemon", "wicd-client", "iwd", "hostapd"}

SERVICES ==
    {"wicd", "network-manager", "avahi-daemon", "NetworkManager",
     "wpa_supplicant"}

\* `for service in self.SERVICES` walks a set: the order is the
\* interpreter's.  These are the orders a call is run with.
ServiceOrders ==
    { <<"wicd", "network-manager", "avahi-daemon", "NetworkManager",
        "wpa_supplicant">>,
      <<"wpa_supplicant", "NetworkManager", "avahi-daemon", "network-manager",
        "wicd">> }

\* The candidates of restore(), in its order.
RestoreTargets == <<"NetworkManager", "avahi-daemon", "wicd", "wpa_supplicant">>

\* One external command or signal, with how it ended: "0" or "1" for an exit
\* status, or the exception send_signal / subprocess.run raised.
Cmd(cmd, target, arg, res) ==
    [cmd |-> cmd, target |-> target, arg |-> arg, res |-> res]

\* What a function did: the value it returns, the commands it issued, what
\* it printed, and the exception that left it ("" for none).
Did(value, issued, prints, raised) ==
    [value |-> value, cmds |-> issued, prints |-> prints, raised |-> raised]

\* _stop_service(service): e.services[service] is "running" when the stop
\* command exits 0 and "stop_fails" when it does not.
_stop_service(service, e) ==
    IF e.services[service] = "running"
    THEN Did(<<>>, <<Cmd("systemctl stop", service, "", "0")>>,
             <<"stopped successfully">>, "")
    ELSE Did(<<>>, <<Cmd("systemctl stop", service, "", "1")>>,
             <<"stopped unsuccessfully">>, "")

\* _check_services as it would be with the stop outside the `if kill`.
RECURSIVE _check_services_always_stops(_, _, _)
_check_services_always_stops(kill, e, k) ==
    IF k > Len(e.order) THEN Did(<<>>, <<>>, <<>>, "")
    ELSE LET service == e.order[k]
             rest == _check_services_always_stops(kill, e, k + 1)
         IN  IF e.services[service] # "inactive"
             THEN LET stop == _stop_service(service, e) IN
                  Did(<<service>> \o rest.value,
                      <<Cmd("systemctl status", service, "", "0")>>
                          \o stop.cmds \o rest.cmds,
                      stop.prints \o rest.prints, "")
             ELSE Did(rest.value,
                      <<Cmd("systemctl status", service, "", "1")>>
                          \o rest.cmds,
                      rest.prints, "")

\* _check_services(kill), from the k-th service of the iteration on.
RECURSIVE _check_services(_, _, _)
_check_services(kill, e, k) ==
    IF k > Len(e.order) THEN Did(<<>>, <<>>, <<>>, "")
    ELSE LET service == e.order[k]
             rest == _check_services(kill, e, k + 1)
         IN  IF e.services[service] # "inactive"
             THEN \* result.returncode == 0
                  LET stop == IF kill THEN _stop_service(service, e)
                              ELSE Did(<<>>, <<>>, <<>>, "")
                  IN  Did(<<service>> \o rest.value,
                          <<Cmd("systemctl status", service, "", "0")>>
                              \o stop.cmds \o rest.cmds,
                          stop.prints \o rest.prints, "")
             ELSE Did(rest.value,
                      <<Cmd("systemctl status", service, "", "1")>>
                          \o rest.cmds,
                      rest.prints, "")

\* _kill_processes(process): process.on_signal is what send_signal(SIGTERM)
\* does for this process: "0" (delivered), "NoSuchProcess" or "AccessDenied".
_kill_processes(process) ==
    Did(<<>>, <<Cmd("send_signal", process.name, "SIGTERM", process.on_signal)>>,
        IF process.on_signal = "AccessDenied"
        THEN <<"Unable to kill process, are you root?">> ELSE <<>>,
        "")

\* process.name() reads the live process: it raises NoSuchProcess once the
\* process has exited.  process.exits says when this one does: "" for not
\* during the call, "listed" for after process_iter() has yielded it and
\* before the test of its name, "detected" for right after that test.
NameRaises(process, at) ==
    \/ process.exits = "listed"
    \/ process.exits = "detected" /\ at = "append"

\* _check_processes(kill), from the k-th process of psutil.process_iter() on.
\* An exception of process.name() leaves the function: the list found so
\* far is lost, what was issued and printed stays.
RECURSIVE _check_processes(_, _, _)
_check_processes(kill, e, k) ==
    IF k > Len(e.procs) THEN Did(<<>>, <<>>, <<>>, "")
    ELSE LET process == e.procs[k]
             rest == _check_processes(kill, e, k + 1)
         IN  IF NameRaises(process, "test")
             THEN Did(<<>>, <<>>, <<>>, "NoSuchProcess")
             ELSE IF process.name \in PROCESSES
             THEN IF NameRaises(process, "append")
                  THEN Did(<<>>, <<>>, <<>>, "NoSuchProcess")
                  ELSE LET sent == IF kill THEN _kill_processes(process)
                                   ELSE Did(<<>>, <<>>, <<>>, "")
                       IN  IF rest.raised # ""
                           THEN Did(<<>>, sent.cmds \o rest.cmds,
                                    sent.prints \o rest.prints, rest.raised)
                           ELSE Did(<<process.name>> \o rest.value,
                                    sent.cmds \o rest.cmds,
                                    sent.prints \o rest.prints, "")
             ELSE rest

\* check() and check_and_kill(): the services first, then the processes.
CheckWith(kill, e) ==
    LET services == _check_services(kill, e, 1)
        process == _check_processes(kill, e, 1)
    IN  IF process.raised # ""
        THEN Did([services |-> <<>>, processes |-> <<>>],
                 services.cmds \o process.cmds,
                 services.prints \o process.prints, process.raised)
        ELSE Did([services |-> services.value, processes |-> process.value],
                 services.cmds \o process.cmds,
                 services.prints \o process.prints, "")

check(e) == CheckWith(FALSE, e)

check_and_kill(e) == CheckWith(TRUE, e)

\* RestoreFrom as it would be with the append after the try block instead
\* of inside it: a candidate whose restart failed is listed too.
RECURSIVE RestoreFromListsFailed(_, _)
RestoreFromListsFailed(e, k) ==
    IF k > Len(RestoreTargets) THEN Did(<<>>, <<>>, <<>>, "")
    ELSE LET service == RestoreTargets[k]
             rest == RestoreFromListsFailed(e, k + 1)
             ok == e.units[service] = "enabled"
         IN  IF e.units[service] = "disabled"
             THEN Did(rest.value,
                      <<Cmd("systemctl is-enabled", service, "", "1")>>
                          \o rest.cmds,
                      rest.prints, "")
             ELSE Did(<<service>> \o rest.value,
                      <<Cmd("systemctl is-enabled", service, "", "0"),
                        Cmd("systemctl restart", service, "",
                            IF ok THEN "0" ELSE "1")>>
                          \o rest.cmds,
                      <<"Restoring service", IF ok THEN "OK" ELSE "FAILED">>
                          \o rest.prints, "")

\* restore(), from the k-th candidate on: e.units[service] is "disabled"
\* when is-enabled fails, "enabled" when the restart then succeeds and
\* "restart_fails" when it raises CalledProcessError.
RECURSIVE RestoreFrom(_, _)
RestoreFrom(e, k) ==
    IF k > Len(RestoreTargets) THEN Did(<<>>, <<>>, <<>>, "")
    ELSE LET service == RestoreTargets[k]
             rest == RestoreFrom(e, k + 1)
         IN  CASE e.units[service] = "disabled" ->
                    Did(rest.value,
                        <<Cmd("systemctl is-enabled", service, "", "1")>>
                            \o rest.cmds,
                        rest.prints, "")
               [] e.units[service] = "enabled" ->
                    Did(<<service>> \o rest.value,
                        <<Cmd("systemctl is-enabled", service, "", "0"),
                          Cmd("systemctl restart", service, "", "0")>>
                            \o rest.cmds,
                        <<"Restoring service", "OK">> \o rest.prints, "")
               [] OTHER ->
                    Did(rest.value,
                        <<Cmd("systemctl is-enabled", service, "", "0"),
                          Cmd("systemctl restart", service, "", "1")>>
                            \o rest.cmds,
                        <<"Restoring service", "FAILED">> \o rest.prints, "")

restore(e) == RestoreFrom(e, 1)

\* ------------------------------------------------ interface controller

\* The interfaces /sys/class/net holds.
Present == {"wlan0"}

\* How an interface command ends in environment e: e.fault names the one
\* command that fails, e.how whether it exits non-zero ("exit") or cannot be
\* started, so that subprocess.run raises OSError ("oserror").  A command on
\* an interface that is not there exits non-zero.
Run(cmd, interface, e) ==
    IF e.fault = cmd /\ e.how = "oserror" THEN "OSError"
    ELSE IF e.fault = cmd \/ interface \notin Present THEN "1"
    ELSE "0"

\* What subprocess.run (without check=True) passes on of a command's end:
\* nothing of an exit status, the exception when the command did not start.
RunRaises(res) == IF res = "OSError" THEN "OSError" ELSE ""

\* _set_interface_state(action): ip link set <interface> up|down
_set_interface_state(interface, action, e) ==
    LET res == Run("ip link set", interface, e) IN
    Did(<<>>, <<Cmd("ip link set", interface, action, res)>>, <<>>,
        RunRaises(res))

\* _set_interface_mode(mode): iw <interface> set type <mode>
_set_interface_mode(interface, mode, e) ==
    LET res == Run("iw set type", interface, e) IN
    Did(<<>>, <<Cmd("iw set type", interface, mode, res)>>, <<>>,
        RunRaises(res))

down(interface, e) == _set_interface_state(interface, "down", e)

up(interface, e) == _set_interface_state(interface, "up", e)

monitor(interface, e) == _set_interface_mode(interface, "monitor", e)

managed(interface, e) == _set_interface_mode(interface, "managed", e)

\* ------------------------------------------------------------ commands

\* list_interfaces(): ip link show
list_interfaces == <<Cmd("ip link show", "", "", "0")>>

\* check_interface_exists(interface); "" is a missing name.
check_interface_exists(interface) ==
    IF interface = ""
    THEN Did(<<>>, list_interfaces, <<"[ERROR] Interface required">>,
             "SystemExit(1)")
    ELSE IF interface \notin Present
    THEN Did(<<>>, list_interfaces, <<"[ERROR] Interface not found">>,
             "SystemExit(1)")
    ELSE Did(<<>>, <<>>, <<>>, "")

\* MonitorCommand.execute(interface=..., kill=...)
MonitorCommand_execute(interface, kill, e) ==
    LET checked == check_interface_exists(interface) IN
    IF checked.raised # "" THEN checked
    ELSE LET killed == IF kill THEN check_and_kill(e)
                       ELSE Did(<<>>, <<>>, <<>>, "")
             switched == monitor(interface, e)
             before == <<"[*] Switching to MONITOR mode">>
                       \o (IF kill THEN <<"[*] Killing conflicting processes">>
                           ELSE <<>>)
                       \o killed.prints
             issued == killed.cmds \o switched.cmds
         IN  IF killed.raised # ""
             THEN \* check_and_kill() is called outside the try
                  Did(<<>>, killed.cmds, before, killed.raised)
             ELSE IF switched.raised = ""
             THEN Did(<<>>, issued, before \o <<"[SUCCESS] MONITOR mode">>, "")
             ELSE \* except Exception
                  Did(<<>>, issued,
                      before \o <<"[ERROR] Unexpected failure">>,
                      "SystemExit(1)")

\* ManagedCommand.execute(interface=..., restart=...); the value returned is
\* the message, in its parts.
ManagedCommand_execute(interface, restart, e) ==
    IF interface = ""
    THEN Did(<<>>, list_interfaces, <<"[ERROR] Interface required">>,
             "SystemExit(1)")
    ELSE LET switched == managed(interface, e)
             before == <<"[*] Switching to MANAGED mode">>
         IN  IF switched.raised # ""
             THEN \* except Exception
                  Did(<<>>, switched.cmds,
                      before \o <<"[ERROR] Unexpected failure">>,
                      "SystemExit(1)")
             ELSE IF ~restart
             THEN Did(<<"[SUCCESS] MANAGED mode">>, switched.cmds, before, "")
             ELSE IF e.units["NetworkManager"] = "restart_fails"
             THEN \* check=True: CalledProcessError
                  Did(<<"[SUCCESS] MANAGED mode",
                        "(NetworkManager restart failed)">>,
                      switched.cmds
                        \o <<Cmd("systemctl restart", "NetworkManager", "", "1")>>,
                      before \o <<"[*] Restarting NetworkManager", "FAILED">>,
                      "")
             ELSE Did(<<"[SUCCESS] MANAGED mode",
                        "(NetworkManager restarted)">>,
                      switched.cmds
                        \o <<Cmd("systemctl restart", "NetworkManager", "", "0")>>,
                      before \o <<"[*] Restarting NetworkManager", "OK">>,
                      "")

\* ------------------------------------------------- the environment

\* The environment of a call: the order the SERVICES set is walked in, each
\* conflicting service's state, the live processes with what signalling
\* each does, each restore candidate's state, and the interface command
\* that fails.
BaseEnv ==
    [order    |-> <<"wicd", "network-manager", "avahi-daemon",
                    "NetworkManager", "wpa_supplicant">>,
     services |-> [x \in SERVICES |-> "inactive"],
     procs    |-> <<>>,
     units    |-> [x \in {RestoreTargets[k] : k \in 1..Len(RestoreTargets)}
                      |-> "disabled"],
     fault    |-> "",
     how      |-> ""]

ServiceStates ==
    { f \in [SERVICES -> {"inactive", "running", "stop_fails"}] :
        Cardinality({x \in SERVICES : f[x] # "inactive"}) <= MaxRunning }

\* The live processes a call can meet: a conflicting one with each way a
\* signal to it can end, one that exits right after it was detected, a
\* second conflicting one, and one that is no conflict, lasting or exiting
\* once listed.
ProcEntries ==
    { [name |-> "wpa_supplicant", on_signal |-> r, exits |-> ""] :
        r \in {"0", "NoSuchProcess", "AccessDenied"} }
    \cup { [name |-> "wpa_supplicant", on_signal |-> "NoSuchProcess",
            exits |-> "detected"],
           [name |-> "NetworkManager", on_signal |-> "0", exits |-> ""],
           [name |-> "sshd", on_signal |-> "0", exits |-> ""],
           [name |-> "sshd", on_signal |-> "0", exits |-> "listed"] }

ProcLists == UNION { [1..n -> ProcEntries] : n \in 0..MaxProcs }

ResolverEnvs ==
    { [BaseEnv EXCEPT !.order = o, !.services = f, !.procs = l] :
        o \in ServiceOrders, f \in ServiceStates, l \in ProcLists }

UnitEnvs ==
    { [BaseEnv EXCEPT !.units = u] :
        u \in [DOMAIN BaseEnv.units ->
                  {"disabled", "enabled", "restart_fails"}] }

\* The interface commands of the platform, and the faults a call can meet:
\* none, one of the commands exiting non-zero, or one of the two the
\* controller runs not starting at all.
Faults ==
    { <<"", "">> }
    \cup { <<c, "exit">> :
             c \in {"iw dev info", "ip link set", "iw dev del",
                    "iw phy interface add", "iw set type"} }
    \cup { <<c, "oserror">> : c \in {"ip link set", "iw set type"} }

\* No interface command fails.
NoFault == <<"", "">>

WithFault(e, f) == [e EXCEPT !.fault = f[1], !.how = f[2]]

\* The interface names a call is given: none, one that is there, one that
\* is not.
Interfaces == {"", "wlan0", "wlan9"}

\* ------------------------------------------------- before any call

\* No parser run of its own is in progress.
ParserIdle ==
    /\ raw_output = <<>>
    /\ line_no = 0
    /\ heap = <<>>
    /\ networks = <<>>
    /\ current_net = 0
    /\ parse_pc = "idle"

\* A monitor nothing has been called on.
MonitorFresh ==
    /\ self_networks = EmptyDict
    /\ op = ""
    /\ msg = NoMsg
    /\ results = <<>>
    /\ printed = <<>>
    /\ reverse_scan = FALSE
    /\ last_reported = <<>>
    /\ merge_case = {}

NoArgs == [interface |-> "", flag |-> FALSE]

NoOutcome == [how |-> "", error |-> ""]

NoCheckResult == [services |-> <<>>, processes |-> <<>>]

\* Nothing has been called.
SysIdle ==
    /\ sys_op = ""
    /\ args = NoArgs
    /\ env = BaseEnv
    /\ cmds = <<>>
    /\ outcome = NoOutcome
    /\ check_result = NoCheckResult
    /\ restored = <<>>
    /\ message = <<>>
    /\ output = <<>>

\* No session has been started.
NoSession ==
    [kind |-> "", loops |-> 0, no_stop |-> FALSE, reverse |-> FALSE,
     i |-> 0, pc |-> "idle", results |-> EmptyDict, scans |-> 0,
     failed_at |-> 0, interrupted |-> "", end |-> NoOutcome,
     returned |-> EmptyDict, text |-> ""]

SessionIdle == session = NoSession

\* How a call that did `did` ends for its caller.
Outcome(did) ==
    [how   |-> CASE did.raised = "" -> "return"
                 [] did.raised = "SystemExit(1)" -> "exit"
                 [] OTHER -> "raise",
     error |-> did.raised]

\* The call `name` with arguments a in environment e did `did`.  No call
\* leaves anything behind in the program for the next, so a behaviour is one
\* call in one environment.
Called(name, a, e, did) ==
    /\ sys_op' = name
    /\ args' = a
    /\ env' = e
    /\ cmds' = did.cmds
    /\ outcome' = Outcome(did)
    /\ output' = did.prints
    /\ UNCHANGED <<parserVars, monitorVars, sessionVars>>

\* ------------------------------------------------- the parser, by line

\* The lines the parser is run on.
ParseLines ==
    { <<"BSS", "aa:bb:cc:dd:ee:01(on", "wlan0)">>,
      <<"BSS", "aa:bb:cc:dd:ee:02">>,
      <<"BSS", "Load:">>,
      <<"BSS">>,
      <<>>,
      <<"SSID:", "Home">>,
      <<"signal:", "-40.00", "dBm">>,
      <<"signal:">> }

ParseTexts == UNION { [1..n -> ParseLines] : n \in 0..MaxLines }

\* The parser's locals as one value, and back.
ParserState ==
    [heap |-> heap, networks |-> networks, current_net |-> current_net,
     raised |-> IF parse_pc = "raised" THEN "IndexError" ELSE ""]

SetParserState(st) ==
    /\ heap' = st.heap
    /\ networks' = st.networks
    /\ current_net' = st.current_net

InitParse ==
    /\ SessionIdle
    /\ MonitorFresh
    /\ SysIdle
    /\ raw_output \in ParseTexts
    /\ line_no = 0
    /\ heap = ParserStart.heap
    /\ networks = ParserStart.networks
    /\ current_net = ParserStart.current_net
    /\ parse_pc = "loop"

\* for line in lines: one pass of the loop body.
ParseStep ==
    /\ parse_pc = "loop"
    /\ line_no < Len(raw_output)
    /\ LET st == ParseLine(ParserState, raw_output[line_no + 1]) IN
        /\ SetParserState(st)
        /\ parse_pc' = IF st.raised # "" THEN "raised" ELSE "loop"
    /\ line_no' = line_no + 1
    /\ UNCHANGED <<raw_output, monitorVars, sysVars, sessionVars>>

\* The loop is over: append the open record and return.
ParseReturn ==
    /\ parse_pc = "loop"
    /\ line_no = Len(raw_output)
    /\ SetParserState(ParseEnd(ParserState))
    /\ parse_pc' = "returned"
    /\ UNCHANGED <<raw_output, line_no, monitorVars, sysVars, sessionVars>>

NextParse == ParseStep \/ ParseReturn

SpecParse == InitParse /\ [][NextParse]_vars

\* ------------------------------------------------- the field rules

\* The lines the field rules are run on: BSS lines, SSID lines with and
\* without a name, for each branch of the chain (and for no branch) a
\* line that also carries a cipher name, signal: lines without a number, and
\* a line with a channel phrase after other words.
FieldLines ==
    { <<"BSS", "aa:bb:cc:dd:ee:01(on", "wlan0)">>,
      <<"BSS", "aa:bb:cc:dd:ee:02">>,
      <<"BSS", "Load:">>,
      <<"SSID:", "Home">>,
      <<"SSID:">>,
      <<"SSID:", "MyCCMPnet">>,
      <<"DS", "Parameter", "set:", "channel", "6", "TKIP">>,
      <<"*", "primary", "channel:", "36", "CCMP">>,
      <<"HT", "operation:", "*", "primary", "channel:", "11">>,
      <<"signal:", "-40.00", "CCMP">>,
      <<"signal:">>,
      <<"signal:", "dBm", "TKIP">>,
      <<"WPA:">>,
      <<"WPA:", "TKIP">>,
      <<"RSN:", "CCMP">>,
      <<"capability:", "Privacy", "TKIP">>,
      <<"WPS:", "CCMP/TKIP">>,
      <<"*", "Pairwise", "ciphers:", "CCMP", "TKIP">> }

FieldTexts == UNION { [1..n -> FieldLines] : n \in 0..MaxFieldLines }

InitFields ==
    /\ SessionIdle
    /\ MonitorFresh
    /\ SysIdle
    /\ raw_output \in FieldTexts
    /\ line_no = 0
    /\ heap = ParserStart.heap
    /\ networks = ParserStart.networks
    /\ current_net = ParserStart.current_net
    /\ parse_pc = "loop"

SpecFields == InitFields /\ [][NextParse]_vars

\* ------------------------------------------------- a sequence of scans

\* The lines `iw dev <interface> scan` prints in a sequence of scans.
ScanLines ==
    { <<"BSS", "aa:bb:cc:dd:ee:01(on", "wlan0)">>,
      <<"BSS", "aa:bb:cc:dd:ee:02">>,
      <<"BSS", "Load:">>,
      <<"BSS">>,
      <<"signal:", "-40.00", "dBm">>,
      <<"signal:", "-70.00", "dBm">> }

ScanTexts == UNION { [1..n -> ScanLines] : n \in 0..MaxScanLines }

\* The scan command exits 0 having printed text: what perform_scan meets.
Printed(text) ==
    [exists |-> TRUE, returncode |-> 0, stdout |-> text,
     parsed |-> _parse_iw_output(text)]

\* What a call of perform_scan can meet: the interface is absent, the scan
\* command exits non-zero, or it exits 0 having printed a text.
ScanOutcomes ==
    { [exists |-> FALSE, returncode |-> 0, stdout |-> <<>>,
       parsed |-> _parse_iw_output(<<>>)],
      [exists |-> TRUE,  returncode |-> 1, stdout |-> <<>>,
       parsed |-> _parse_iw_output(<<>>)] }
    \cup { Printed(t) : t \in ScanTexts }

\* The scan succeeded: its text was parsed and merged.
Succeeds(o) == o.exists /\ o.returncode = 0 /\ o.parsed.raised = ""

\* The blocks, in order, of a successful scan.
Blocks(o) == o.parsed.value

\* last_reported after a scan whose blocks are S: a BSSID that S reports maps
\* to the last block of S that carries it, any other keeps what it had.
Reported(f, S) ==
    [b \in DOMAIN f \cup {S[i].BSSID : i \in 1..Len(S)} |->
        IF \E i \in 1..Len(S) : S[i].BSSID = b
        THEN S[CHOOSE i \in 1..Len(S) :
                 /\ S[i].BSSID = b
                 /\ \A j \in (i + 1)..Len(S) : S[j].BSSID # b]
        ELSE f[b]]

\* What the merge of blocks S into registry d meets: "overwrite" when a BSSID
\* held with one record is reported with another, "repeat" when S reports one
\* BSSID in two blocks that differ.
MergeCase(d, S) ==
    {c \in {"overwrite"} :
        \E b \in DOMAIN d.val : Reported(d.val, S)[b] # d.val[b]}
    \cup {c \in {"repeat"} :
        \E i, j \in 1..Len(S) : S[i].BSSID = S[j].BSSID /\ S[i] # S[j]}

InitScan ==
    /\ SessionIdle
    /\ ParserIdle
    /\ SysIdle
    /\ MonitorFresh

\* monitor.perform_scan()
PerformScan ==
    \E o \in ScanOutcomes :
        LET r == perform_scan(self_networks, o.exists, o.returncode, o.parsed)
        IN  /\ self_networks' = r.networks
            /\ msg' = r.msg
            /\ op' = "perform_scan"
            /\ results' = <<>>
            /\ printed' = <<>>
            /\ last_reported' = IF Succeeds(o)
                                THEN Reported(last_reported, Blocks(o))
                                ELSE last_reported
            /\ merge_case' = IF Succeeds(o)
                             THEN MergeCase(self_networks, Blocks(o))
                             ELSE {}
            /\ UNCHANGED <<reverse_scan, parserVars, sysVars, sessionVars>>

\* monitor.get_results(reverse_scan=reverse)
GetResults ==
    \E reverse \in BOOLEAN :
        LET r == get_results(self_networks, reverse) IN
        /\ results' = r.value
        /\ printed' = r.rows
        /\ reverse_scan' = reverse
        /\ op' = "get_results"
        /\ msg' = NoMsg
        /\ UNCHANGED <<self_networks, last_reported, merge_case, parserVars,
                       sysVars, sessionVars>>

NextScan == PerformScan \/ GetResults

SpecScan == InitScan /\ [][NextScan]_vars

\* ------------------------------------------------ ranking of one scan

RankBss ==
    { <<"BSS", "aa:bb:cc:dd:ee:01(on", "wlan0)">>,
      <<"BSS", "aa:bb:cc:dd:ee:02">>,
      <<"BSS", "aa-bb-cc-dd-ee-03">> }

RankSignals ==
    { <<"signal:", "-40.00", "dBm">>,
      <<"signal:", "-55.00", "dBm">>,
      <<"signal:", "-70.00", "dBm">> }

\* A block of scan text: a BSS line, with or without a signal line.
RankBlocks ==
    {<<b>> : b \in RankBss} \cup {<<b, g>> : b \in RankBss, g \in RankSignals}

RECURSIVE Flatten(_)
Flatten(blocks) ==
    IF blocks = <<>> THEN <<>> ELSE Head(blocks) \o Flatten(Tail(blocks))

RankTexts ==
    UNION { {Flatten(f) : f \in [1..n -> RankBlocks]} : n \in 0..MaxAPs }

RankOutcomes == { Printed(t) : t \in RankTexts }

\* A fresh monitor after one successful perform_scan.
InitRank ==
    /\ SessionIdle
    /\ ParserIdle
    /\ SysIdle
    /\ \E o \in RankOutcomes :
        LET r == perform_scan(EmptyDict, o.exists, o.returncode, o.parsed)
        IN  /\ self_networks = r.networks
            /\ msg = r.msg
            /\ last_reported = Reported(<<>>, Blocks(o))
            /\ merge_case = MergeCase(EmptyDict, Blocks(o))
    /\ op = "perform_scan"
    /\ results = <<>>
    /\ printed = <<>>
    /\ reverse_scan = FALSE

NextRank == GetResults

SpecRank == InitRank /\ [][NextRank]_vars

\* ------------------------------------------------- the system layer

InitSys ==
    /\ SessionIdle
    /\ ParserIdle
    /\ MonitorFresh
    /\ SysIdle

\* ConflictResolver().check()
Check ==
    /\ sys_op = ""
    /\ \E e \in ResolverEnvs :
        LET did == check(e) IN
        /\ Called("check", NoArgs, e, did)
        /\ check_result' = did.value
        /\ restored' = <<>>
        /\ message' = <<>>

\* ConflictResolver().check_and_kill()
CheckAndKill ==
    /\ sys_op = ""
    /\ \E e \in ResolverEnvs :
        LET did == check_and_kill(e) IN
        /\ Called("check_and_kill", NoArgs, e, did)
        /\ check_result' = did.value
        /\ restored' = <<>>
        /\ message' = <<>>

\* ConflictResolver.restore()
Restore ==
    /\ sys_op = ""
    /\ \E e \in UnitEnvs :
        LET did == restore(e) IN
        /\ Called("restore", NoArgs, e, did)
        /\ restored' = did.value
        /\ check_result' = NoCheckResult
        /\ message' = <<>>

\* InterfaceManagement(interface).up() / .down() / .monitor() / .managed()
Up ==
    /\ sys_op = ""
    /\ \E i \in Interfaces \ {""}, f \in Faults :
        /\ Called("up", [interface |-> i, flag |-> FALSE],
                  WithFault(BaseEnv, f), up(i, WithFault(BaseEnv, f)))
        /\ UNCHANGED <<check_result, restored, message>>

Down ==
    /\ sys_op = ""
    /\ \E i \in Interfaces \ {""}, f \in Faults :
        /\ Called("down", [interface |-> i, flag |-> FALSE],
                  WithFault(BaseEnv, f), down(i, WithFault(BaseEnv, f)))
        /\ UNCHANGED <<check_result, restored, message>>

Monitor ==
    /\ sys_op = ""
    /\ \E i \in Interfaces \ {""}, f \in Faults :
        /\ Called("monitor", [interface |-> i, flag |-> FALSE],
                  WithFault(BaseEnv, f), monitor(i, WithFault(BaseEnv, f)))
        /\ UNCHANGED <<check_result, restored, message>>

Managed ==
    /\ sys_op = ""
    /\ \E i \in Interfaces \ {""}, f \in Faults :
        /\ Called("managed", [interface |-> i, flag |-> FALSE],
                  WithFault(BaseEnv, f), managed(i, WithFault(BaseEnv, f)))
        /\ UNCHANGED <<check_result, restored, message>>

\* MonitorCommand().execute(interface=i, kill=kill)
MonitorExecute ==
    /\ sys_op = ""
    /\ \E i \in Interfaces, kill \in BOOLEAN, f \in Faults :
        \E e0 \in IF kill /\ i \in Present /\ f = NoFault
                   THEN ResolverEnvs ELSE {BaseEnv} :
            LET e == WithFault(e0, f) IN
            /\ Called("MonitorCommand.execute",
                      [interface |-> i, flag |-> kill], e,
                      MonitorCommand_execute(i, kill, e))
            /\ check_result' = NoCheckResult
            /\ restored' = <<>>
            /\ message' = <<>>

\* ManagedCommand().execute(interface=i, restart=restart)
ManagedExecute ==
    /\ sys_op = ""
    /\ \E i \in Interfaces, restart \in BOOLEAN, f \in Faults :
        \E nm \in IF restart /\ i # "" THEN {"enabled", "restart_fails"}
                   ELSE {"disabled"} :
            LET e == WithFault([BaseEnv EXCEPT !.units["NetworkManager"] = nm],
                               f)
                did == ManagedCommand_execute(i, restart, e)
            IN  /\ Called("ManagedCommand.execute",
                          [interface |-> i, flag |-> restart], e, did)
                /\ message' = did.value
                /\ check_result' = NoCheckResult
                /\ restored' = <<>>

NextSys ==
    \/ Check
    \/ CheckAndKill
    \/ Restore
    \/ Up
    \/ Down
    \/ Monitor
    \/ Managed
    \/ MonitorExecute
    \/ ManagedExecute

SpecSys == InitSys /\ [][NextSys]_vars

\* ------------------------------------------------------ scan sessions

\* results.update(current_scan_data), from the k-th key of
\* current_scan_data on; its keys are 1..N in insertion order.
RECURSIVE DictUpdateFrom(_, _, _)
DictUpdateFrom(d, current_scan_data, k) ==
    IF k \notin DOMAIN current_scan_data THEN d
    ELSE DictUpdateFrom(DictSet(d, k, current_scan_data[k]),
                        current_scan_data, k + 1)

\* DictUpdate as a loop of results.setdefault(k, v) would do it: an index
\* already there keeps the record it had.
RECURSIVE DictUpdateKeepsOldFrom(_, _, _)
DictUpdateKeepsOldFrom(d, current_scan_data, k) ==
    IF k \notin DOMAIN current_scan_data THEN d
    ELSE DictUpdateKeepsOldFrom(DictSetKeepsOld(d, k, current_scan_data[k]),
                                current_scan_data, k + 1)

DictUpdateKeepsOld(d, current_scan_data) ==
    DictUpdateKeepsOldFrom(d, current_scan_data, 1)

DictUpdate(d, current_scan_data) == DictUpdateFrom(d, current_scan_data, 1)

\* What one monitor.perform_scan() of a session can meet.
SessionOutcomes ==
    { o \in ScanOutcomes : Len(o.stdout) <= MaxSessionLines }

\* "[FAILURE]" in msg
IsFailure(m) == m.tag = "FAILURE"

InitSession ==
    /\ SessionIdle
    /\ ParserIdle
    /\ MonitorFresh
    /\ SysIdle

\* core.scan.perform_scan(interface, loops=..., no_stop=..., reverse=...) is
\* called: a new monitor, an empty results, the loop iterator.
StartCoreScan ==
    /\ session.pc = "idle"
    /\ \E loops \in 1..MaxLoops, no_stop \in BOOLEAN, reverse \in BOOLEAN :
        session' = [NoSession EXCEPT !.kind = "core.scan", !.loops = loops,
                                     !.no_stop = no_stop, !.reverse = reverse,
                                     !.pc = "scan"]
    /\ UNCHANGED <<parserVars, monitorVars, sysVars>>

\* ScanCommand.execute(interface=..., loops=..., reverse=...) is called.
StartScanCommand ==
    /\ session.pc = "idle"
    /\ \E loops \in 1..MaxLoops, reverse \in BOOLEAN :
        session' = [NoSession EXCEPT !.kind = "ScanCommand", !.loops = loops,
                                     !.reverse = reverse, !.pc = "scan"]
    /\ UNCHANGED <<parserVars, monitorVars, sysVars>>

\* msg = monitor.perform_scan() and the test of msg that follows it.  On a
\* failure core.scan raises RuntimeError(msg), which its try does not catch,
\* and ScanCommand.execute returns msg.
SessionScan ==
    /\ session.pc = "scan"
    /\ session.scans < MaxLoops
    /\ \E o \in SessionOutcomes :
        LET r == perform_scan(self_networks, o.exists, o.returncode, o.parsed)
            core == session.kind = "core.scan"
            last == session.i = session.loops - 1
        IN  /\ self_networks' = r.networks
            /\ msg' = r.msg
            /\ op' = "perform_scan"
            /\ results' = <<>>
            /\ printed' = <<>>
            /\ last_reported' = IF Succeeds(o)
                                THEN Reported(last_reported, Blocks(o))
                                ELSE last_reported
            /\ merge_case' = IF Succeeds(o)
                             THEN MergeCase(self_networks, Blocks(o))
                             ELSE {}
            /\ session' =
                 IF IsFailure(r.msg)
                 THEN [session EXCEPT
                         !.scans = @ + 1, !.failed_at = session.scans + 1,
                         !.pc = "ended",
                         !.end = IF core
                                 THEN [how |-> "raise", error |-> "RuntimeError"]
                                 ELSE [how |-> "return", error |-> ""],
                         !.text = IF core THEN "" ELSE "[FAILURE]"]
                 ELSE [session EXCEPT
                         !.scans = @ + 1,
                         !.pc = IF core THEN "merged"
                                ELSE IF last THEN "results" ELSE "sleep"]
            /\ UNCHANGED <<reverse_scan, parserVars, sysVars>>

\* core.scan: current_scan_data = monitor.get_results(reverse_scan=reverse)
\* and results.update(current_scan_data).
SessionUpdate ==
    /\ session.pc = "merged"
    /\ LET r == get_results(self_networks, session.reverse) IN
        /\ results' = r.value
        /\ printed' = r.rows
        /\ reverse_scan' = session.reverse
        /\ op' = "get_results"
        /\ msg' = NoMsg
        /\ session' = [session EXCEPT !.results = DictUpdate(@, r.value),
                                      !.pc = "sleep"]
    /\ UNCHANGED <<self_networks, last_reported, merge_case, parserVars,
                   sysVars>>

\* time.sleep(...) and the next turn of the loop: core.scan falls out of a
\* finished range(loops) and returns results.
SessionSleep ==
    /\ session.pc = "sleep"
    /\ session' =
         IF session.kind = "core.scan" /\ ~session.no_stop
            /\ session.i + 1 = session.loops
         THEN [session EXCEPT !.i = @ + 1, !.pc = "ended",
                              !.end = [how |-> "return", error |-> ""],
                              !.returned = session.results]
         ELSE [session EXCEPT !.i = @ + 1, !.pc = "scan"]
    /\ UNCHANGED <<parserVars, monitorVars, sysVars>>

\* ScanCommand.execute after its loop: get_results and the message.
SessionResults ==
    /\ session.pc = "results"
    /\ LET r == get_results(self_networks, session.reverse) IN
        /\ results' = r.value
        /\ printed' = r.rows
        /\ reverse_scan' = session.reverse
        /\ op' = "get_results"
        /\ msg' = NoMsg
        /\ session' = [session EXCEPT
                         !.i = @ + 1, !.pc = "ended",
                         !.end = [how |-> "return", error |-> ""],
                         !.text = IF r.value = <<>>
                                  THEN "[FAILURE] No networks found"
                                  ELSE "Scan complete."]
    /\ UNCHANGED <<self_networks, last_reported, merge_case, parserVars,
                   sysVars>>

\* KeyboardInterrupt where the session stands: in monitor.perform_scan
\* before anything is merged ("scan"), between the merge and
\* results.update ("merged"), in time.sleep ("sleep").  core.scan catches it
\* and returns results; ScanCommand.execute has no handler.
SessionInterrupt ==
    /\ session.pc \in {"scan", "merged", "sleep", "results"}
    /\ session' =
         IF session.kind = "core.scan"
         THEN [session EXCEPT !.pc = "ended", !.interrupted = session.pc,
                              !.end = [how |-> "return", error |-> ""],
                              !.returned = session.results]
         ELSE [session EXCEPT !.pc = "ended", !.interrupted = session.pc,
                              !.end = [how |-> "raise",
                                       error |-> "KeyboardInterrupt"]]
    /\ UNCHANGED <<parserVars, monitorVars, sysVars>>

NextSession ==
    \/ StartCoreScan
    \/ StartScanCommand
    \/ SessionScan
    \/ SessionUpdate
    \/ SessionSleep
    \/ SessionResults
    \/ SessionInterrupt

SpecSession == InitSession /\ [][NextSession]_vars

\* ------------------------------------------------------------ claims

\* A BSS line whose address token is there and fails the MAC pattern.
MalformedBss(line) ==
    /\ Len(line) >= 2
    /\ line[1] = "BSS"
    /\ ~RE_BSS_MAC(BeforeParen(line[2]))

\* The last BSS line among the first k lines of text is a malformed one.
AfterMalformedBss(text, k) ==
    \E j \in 1..k :
        /\ MalformedBss(text[j])
        /\ \A m \in (j + 1)..k : text[m] = <<>> \/ text[m][1] # "BSS"

\* C1 (as claimed): a malformed BSS line starts no new record, and a field
\* line read after a malformed BSS line and before the next valid BSS line
\* changes no field of any record.
C1_MalformedBssGuard ==
    [][(parse_pc = "loop" /\ line_no' = line_no + 1) =>
        LET line == raw_output[line_no + 1] IN
        /\ MalformedBss(line) => Len(heap') = Len(heap)
        /\ (/\ AfterMalformedBss(raw_output, line_no)
            /\ line # <<>>
            /\ line[1] # "BSS") => heap' = heap]_vars

\* C6 (as claimed): _parse_iw_output raises on no input text.
C6_ParserNeverRaises == parse_pc # "raised"

\* ------------------------------------------------ registry and ranking

\* Place of key b in the registry's iteration order.
KeyPlace(b) ==
    CHOOSE i \in 1..Len(self_networks.keys) : self_networks.keys[i] = b

\* C5: the registry holds each BSSID once, under its own key, and the record
\* held for a BSSID is, whole, the last block carrying that BSSID of the most
\* recent successful scan that reported it.
C5_RegistryIdentity ==
    /\ \A i, j \in 1..Len(self_networks.keys) :
           self_networks.keys[i] = self_networks.keys[j] => i = j
    /\ {self_networks.keys[i] : i \in 1..Len(self_networks.keys)}
           = DOMAIN self_networks.val
    /\ \A b \in DOMAIN self_networks.val : self_networks.val[b].BSSID = b
    /\ DOMAIN self_networks.val = DOMAIN last_reported
    /\ \A b \in DOMAIN last_reported : self_networks.val[b] = last_reported[b]

\* A successful scan has just reported a BSSID in two differing blocks and
\* replaced the differing record the registry held for a BSSID.
C5_Witness ==
    /\ op = "perform_scan"
    /\ msg.tag = "SUCCESS"
    /\ merge_case = {"overwrite", "repeat"}

\* C7: get_results returns a mapping with keys exactly 1..N, N the number of
\* registry entries, holding the registry's records in non-increasing
\* Signal_dBm order by index, records of equal Signal_dBm in registry
\* iteration order.
C7_Ranking ==
    op = "get_results" =>
        LET N == Len(self_networks.keys) IN
        /\ DOMAIN results = 1..N
        /\ \A n \in 1..N :
               /\ results[n].BSSID \in DOMAIN self_networks.val
               /\ results[n] = self_networks.val[results[n].BSSID]
        /\ \A m, n \in 1..N :
               m < n =>
                 /\ results[m].BSSID # results[n].BSSID
                 /\ results[m].Signal_dBm >= results[n].Signal_dBm
                 /\ results[m].Signal_dBm = results[n].Signal_dBm
                      => KeyPlace(results[m].BSSID) < KeyPlace(results[n].BSSID)

\* get_results has ranked three records, two of them of equal strength, that
\* the registry did not hold in ranked order.
C7_Witness ==
    /\ op = "get_results"
    /\ Len(self_networks.keys) = 3
    /\ \E m, n \in DOMAIN results :
           m # n /\ results[m].Signal_dBm = results[n].Signal_dBm
    /\ \E n \in DOMAIN results :
           results[n] # self_networks.val[self_networks.keys[n]]

\* C8: the flag changes what is printed and nothing else.  The mapping
\* returned is the one the opposite flag returns (index 1 the strongest
\* record), the rows printed are the opposite flag's rows in reverse order,
\* and each row carries the index its record has in the mapping.
C8_ReverseIsPresentation ==
    op = "get_results" =>
        LET other == get_results(self_networks, ~reverse_scan) IN
        /\ results = other.value
        /\ printed = Reversed(other.rows)
        /\ \A k \in 1..Len(printed) :
               /\ printed[k][1] \in DOMAIN results
               /\ results[printed[k][1]] = printed[k][2]
               /\ printed[k][1] = IF reverse_scan
                                  THEN Len(printed) + 1 - k ELSE k
        /\ \A n \in DOMAIN results :
               1 \in DOMAIN results
               /\ results[1].Signal_dBm >= results[n].Signal_dBm

\* get_results(reverse_scan=True) on records of -40, -70 and -55 dBm has
\* printed -70, -55, -40 with the indices 3, 2, 1.
C8_Witness ==
    /\ op = "get_results"
    /\ reverse_scan
    /\ [k \in 1..Len(self_networks.keys) |->
           self_networks.val[self_networks.keys[k]].Signal_dBm]
         = <<-40, -70, -55>>
    /\ [k \in 1..Len(printed) |-> printed[k][2].Signal_dBm] = <<-70, -55, -40>>
    /\ [k \in 1..Len(printed) |-> printed[k][1]] = <<3, 2, 1>>

\* ------------------------------------------------------ the system layer

\* The call that has finished got as far as the mode switch.
Switched ==
    \/ sys_op \in {"monitor", "managed"}
    \/ sys_op = "MonitorCommand.execute" /\ args.interface \in Present
    \/ sys_op = "ManagedCommand.execute" /\ args.interface # ""

\* The operating type the finished call switches to.
TargetType ==
    IF sys_op \in {"monitor", "MonitorCommand.execute"} THEN "monitor"
    ELSE "managed"

\* The commands the finished call issued on the interface, in order.
InterfaceCmds ==
    SelectSeq(cmds, LAMBDA c : c.cmd \in {"iw dev info", "ip link set",
                                          "iw dev del", "iw phy interface add",
                                          "iw set type"})

\* The finished call issued command cmd with argument arg.
Issued(cmd, arg) ==
    \E k \in 1..Len(cmds) : cmds[k].cmd = cmd /\ cmds[k].arg = arg

\* The steps of a switch of interface i to type t, as claimed.
SwitchSteps(i, t) ==
    << [cmd |-> "ip link set", arg |-> "down"],
       [cmd |-> "iw dev del", arg |-> ""],
       [cmd |-> "iw phy interface add", arg |-> t],
       [cmd |-> "ip link set", arg |-> "up"] >>

\* C3 (as claimed): a mode switch issues link-down, delete, re-create with
\* the target type, link-up, in this order and on the interface it was given:
\* what it issued on the interface is a prefix of these steps, all four when
\* it returned normally.
C3_StepOrder ==
    Switched =>
        LET steps == SwitchSteps(args.interface, TargetType)
            done == SelectSeq(InterfaceCmds,
                              LAMBDA c : c.cmd # "iw dev info")
        IN  /\ Len(done) <= Len(steps)
            /\ \A k \in 1..Len(done) :
                  /\ done[k].cmd = steps[k].cmd
                  /\ done[k].arg = steps[k].arg
                  /\ done[k].target = args.interface
            /\ outcome.how = "return" => Len(done) = Len(steps)

\* C2 (as claimed): where the interface is deleted and its re-creation
\* fails, the mode switch ends with a ModeSwitchError raised to the caller
\* and no link-up is issued.
C2_RecreateFailureRaises ==
    (/\ sys_op \in {"monitor", "managed"}
     /\ args.interface \in Present
     /\ env.fault = "iw phy interface add")
    => /\ outcome = [how |-> "raise", error |-> "ModeSwitchError"]
       /\ ~Issued("ip link set", "up")

\* C9 (as claimed): where the delete step fails, the mode switch ends with a
\* ModeSwitchError and neither the re-create step nor link-up is issued.
C9_DeleteFailureFatal ==
    (/\ sys_op \in {"monitor", "managed"}
     /\ args.interface \in Present
     /\ env.fault = "iw dev del")
    => /\ outcome = [how |-> "raise", error |-> "ModeSwitchError"]
       /\ \A k \in 1..Len(cmds) : cmds[k].cmd # "iw phy interface add"
       /\ ~Issued("ip link set", "up")

\* C10 (as claimed): where the radio behind the interface cannot be resolved
\* (there is no such interface, or the introspection command fails), the mode
\* switch ends with a ResolutionError and has issued no link-down, delete,
\* create or type-change command.
C10_ResolutionBeforeDestruction ==
    (/\ sys_op \in {"monitor", "managed"}
     /\ \/ args.interface \notin Present
        \/ env.fault = "iw dev info")
    => /\ outcome = [how |-> "raise", error |-> "ResolutionError"]
       /\ \A k \in 1..Len(cmds) :
             cmds[k].cmd \notin {"ip link set", "iw dev del",
                                 "iw phy interface add", "iw set type"}

\* A command that ends a service or signals a process.
Terminates(c) == c.cmd \in {"systemctl stop", "send_signal"}

\* C4: check() issues no `systemctl stop` and signals no process, whatever
\* services run and processes live; a stop or a signal is issued only within
\* check_and_kill(), called directly or by MonitorCommand.execute(kill=True).
C4_CheckNonDestructive ==
    /\ sys_op = "check" => \A k \in 1..Len(cmds) : ~Terminates(cmds[k])
    /\ (\E k \in 1..Len(cmds) : Terminates(cmds[k]))
         => \/ sys_op = "check_and_kill"
            \/ sys_op = "MonitorCommand.execute" /\ args.flag

\* check() has found a running conflicting service and two live conflicting
\* processes, and has only asked for the services' status.
C4_Witness ==
    /\ sys_op = "check"
    /\ Len(check_result.services) >= 1
    /\ Len(check_result.processes) >= 2
    /\ Len(cmds) = Cardinality(SERVICES)

\* The commands cmd the finished call issued, in order.
IssuedOf(cmd) == SelectSeq(cmds, LAMBDA c : c.cmd = cmd)

\* The conflicting processes of the environment, in process_iter() order.
Conflicting == SelectSeq(env.procs, LAMBDA p : p.name \in PROCESSES)

\* C11 (as claimed): check_and_kill() returns a CheckResult whatever fails
\* on the way: a process gone between detection and signalling, a process
\* that may not be signalled, a service whose stop fails.  Every active
\* service got its stop and every conflicting process its signal, and the
\* result lists them all.
C11_BatchNotAborted ==
    sys_op = "check_and_kill" =>
        /\ outcome = [how |-> "return", error |-> ""]
        /\ Len(IssuedOf("systemctl stop"))
             = Cardinality({x \in SERVICES : env.services[x] # "inactive"})
        /\ Len(IssuedOf("send_signal")) = Len(Conflicting)
        /\ Len(check_result.processes) = Len(Conflicting)
        /\ Len(check_result.services) = Len(IssuedOf("systemctl stop"))

\* The candidates of restore() in state u, in candidate order.
CandidatesIn(u) ==
    SelectSeq(RestoreTargets, LAMBDA x : env.units[x] \in u)

\* The targets of the commands cmd the finished call issued, in order.
TargetsOf(cmd) ==
    [k \in 1..Len(IssuedOf(cmd)) |-> IssuedOf(cmd)[k].target]

\* C12: restore() asks is-enabled of every candidate, in candidate order,
\* whatever an earlier restart did; it restarts exactly the candidates that
\* are enabled; and it returns exactly those whose restart succeeded, in
\* candidate order.
C12_RestoreResult ==
    sys_op = "restore" =>
        /\ outcome = [how |-> "return", error |-> ""]
        /\ TargetsOf("systemctl is-enabled") = RestoreTargets
        /\ TargetsOf("systemctl restart")
             = CandidatesIn({"enabled", "restart_fails"})
        /\ restored = CandidatesIn({"enabled"})

\* restore() met a disabled candidate and a candidate whose restart failed
\* ahead of two whose restart succeeded, and returned these two.
C12_Witness ==
    /\ sys_op = "restore"
    /\ env.units["NetworkManager"] = "restart_fails"
    /\ env.units["avahi-daemon"] = "disabled"
    /\ restored = <<"wicd", "wpa_supplicant">>

\* ------------------------------------------------------ scan sessions

\* The BSSIDs the registry d holds.
Keys(d) == {d.keys[k] : k \in 1..Len(d.keys)}

\* C13: no step removes a BSSID from the registry: whatever a perform_scan
\* call meets (absent interface, failed command, any output), every BSSID
\* held before it is held after it.
C13_NeverPruned ==
    [][Keys(self_networks) \subseteq Keys(self_networks')]_vars

\* A successful scan that reported one access point has left the registry
\* with the two it held: the one it did not report is still there.
C13_Witness ==
    /\ op = "perform_scan"
    /\ msg = Success(1)
    /\ Cardinality(Keys(self_networks)) = 2

\* C14 (as claimed): a multi-loop session in which a scan fails raises at
\* that iteration: it ends there with an error, having run no later scan,
\* and returns nothing.
C14_ScanFailureFatal ==
    (/\ session.failed_at > 0
     /\ session.loops > 1 \/ session.no_stop)
    => /\ session.pc = "ended"
       /\ session.end.how = "raise"
       /\ session.scans = session.failed_at

\* The access points the dict d holds, by BSSID.
Held(d) == {d.val[k].BSSID : k \in DOMAIN d.val}

\* C15 (as claimed): an open-ended core.scan session that was interrupted,
\* wherever it stood, has returned a result holding every access point the
\* registry had merged by then.
C15_InterruptReturnsRegistry ==
    (/\ session.kind = "core.scan"
     /\ session.no_stop
     /\ session.interrupted # "")
    => /\ session.end = [how |-> "return", error |-> ""]
       /\ Keys(self_networks) \subseteq Held(session.returned)

\* ------------------------------------------------- commands and link state

\* C16 (as claimed): a monitor or managed command given no interface name,
\* or the name of an interface that is not there, ends with an error exit
\* and has issued no service stop, process signal, mode change or service
\* restart.
C16_ValidationFirst ==
    (/\ sys_op \in {"MonitorCommand.execute", "ManagedCommand.execute"}
     /\ args.interface \notin Present)
    => /\ outcome = [how |-> "exit", error |-> "SystemExit(1)"]
       /\ \A k \in 1..Len(cmds) :
             cmds[k].cmd \notin {"systemctl stop", "send_signal",
                                 "iw set type", "systemctl restart"}

\* C17 (as claimed): up() or down() called on its own, whose link-set
\* command fails, ends with the failure raised to the caller.
C17_LinkFailurePropagates ==
    (/\ sys_op \in {"up", "down"}
     /\ \E k \in 1..Len(cmds) :
           cmds[k].cmd = "ip link set" /\ cmds[k].res # "0")
    => outcome.how = "raise"

\* ------------------------------------------------------ parsed records

\* A BSS line with a valid address.
ValidBss(line) ==
    /\ Len(line) >= 2
    /\ line[1] = "BSS"
    /\ RE_BSS_MAC(BeforeParen(line[2]))

\* The valid BSS lines of text, by position.
ValidAt(text) == {p \in 1..Len(text) : ValidBss(text[p])}

\* The reference of the record the valid BSS line at position p started.
RecordOf(text, p) == Cardinality({j \in ValidAt(text) : j <= p})

\* The block of the BSS line at position p: the positions after it up to
\* the next line that begins with BSS.
BlockOf(text, p) ==
    {j \in (p + 1)..Len(text) :
        \A m \in (p + 1)..j : text[m] = <<>> \/ text[m][1] # "BSS"}

\* The loop body is run on a line of an open record.
FieldStep ==
    /\ parse_pc = "loop"
    /\ line_no' = line_no + 1
    /\ current_net # 0
    /\ raw_output[line_no + 1] # <<>>
    /\ raw_output[line_no + 1][1] # "BSS"

\* C18 (as claimed): the record of a valid BSS line whose block has no
\* SSID: line with a name is returned with ESSID "<Hidden>", and an SSID:
\* line without a name changes no ESSID.
C18_HiddenDefault ==
    [][/\ parse_pc' = "returned" =>
            \A p \in ValidAt(raw_output) :
                (\A j \in BlockOf(raw_output, p) :
                    ~(raw_output[j][1] = "SSID:" /\ Len(raw_output[j]) > 1))
                => heap'[RecordOf(raw_output, p)].ESSID = <<"<Hidden>">>
       /\ (FieldStep /\ raw_output[line_no + 1] = <<"SSID:">>) =>
            \A r \in DOMAIN heap : heap'[r].ESSID = heap[r].ESSID]_vars

\* C19: on every line of an open record, whichever branch of the chain the
\* line takes, CCMP becomes true when the line contains CCMP and TKIP when
\* it contains TKIP; no step clears a flag of any record; and the record of
\* a block that contains both is returned with both flags true.
C19_CipherIndependence ==
    [][/\ FieldStep =>
            LET line == raw_output[line_no + 1] IN
            /\ heap'[current_net].CCMP
                 = (heap[current_net].CCMP \/ LineHas(line, "CCMP"))
            /\ heap'[current_net].TKIP
                 = (heap[current_net].TKIP \/ LineHas(line, "TKIP"))
       /\ \A r \in DOMAIN heap :
            /\ heap[r].CCMP => heap'[r].CCMP
            /\ heap[r].TKIP => heap'[r].TKIP
       /\ parse_pc' = "returned" =>
            \A p \in ValidAt(raw_output) :
                (/\ \E j \in BlockOf(raw_output, p) :
                       LineHas(raw_output[j], "CCMP")
                 /\ \E j \in BlockOf(raw_output, p) :
                       LineHas(raw_output[j], "TKIP"))
                => /\ heap'[RecordOf(raw_output, p)].CCMP
                   /\ heap'[RecordOf(raw_output, p)].TKIP]_vars

\* A record has been returned with both flags true, CCMP set by a line the
\* SSID branch took and TKIP by a line the WPA branch took.
C19_Witness ==
    /\ parse_pc = "returned"
    /\ raw_output = << <<"BSS", "aa:bb:cc:dd:ee:02">>,
                       <<"SSID:", "MyCCMPnet">>,
                       <<"WPA:", "TKIP">> >>
    /\ Len(networks) = 1
    /\ heap[networks[1]].CCMP
    /\ heap[networks[1]].TKIP
    /\ heap[networks[1]].WPA
    /\ heap[networks[1]].ESSID = <<"MyCCMPnet">>

\* C20 (as claimed): the returned sequence holds exactly one record for
\* each valid BSS line of the text, in the order of these lines, and none
\* twice: its k-th entry is the record the k-th valid BSS line started, and
\* a text with no valid BSS line returns the empty sequence.
C20_OneRecordPerBss ==
    parse_pc = "returned" =>
        /\ Len(networks) = Cardinality(ValidAt(raw_output))
        /\ \A k \in 1..Len(networks) : networks[k] = k
        /\ \A j, k \in 1..Len(networks) : j # k => networks[j] # networks[k]

\* ------------------------------------------------------ what is acted on

\* The services of the environment whose status query succeeds, in the
\* order the call walks them.
Detected == SelectSeq(env.order, LAMBDA x : env.services[x] # "inactive")

\* The names of the conflicting processes that live through the call, one
\* per process, in process_iter() order.
LiveConflicting ==
    LET live == SelectSeq(Conflicting, LAMBDA p : p.exits = "") IN
    [k \in 1..Len(live) |-> live[k].name]

\* C21 (as claimed): check_and_kill() stops each detected service once and
\* no other, sends SIGTERM once to each live conflicting process and to no
\* other, and returns the services and the process instances it acted on.
C21_ActsOnWhatItDetects ==
    sys_op = "check_and_kill" =>
        /\ TargetsOf("systemctl stop") = Detected
        /\ TargetsOf("send_signal") = LiveConflicting
        /\ \A k \in 1..Len(cmds) :
              cmds[k].cmd = "send_signal" => cmds[k].arg = "SIGTERM"
        /\ check_result.services = Detected
        /\ check_result.processes = LiveConflicting

\* ------------------------------------------------------ failed scans

\* C22: a perform_scan call that returns a [FAILURE] message (interface
\* absent, scan command failed, exception while parsing) leaves the registry
\* exactly as it was: the same keys in the same order with the same records.
C22_FailedScanKeepsRegistry ==
    [][(op' = "perform_scan" /\ IsFailure(msg')) =>
        self_networks' = self_networks]_vars

\* A scan whose output made the parser raise has returned its [FAILURE]
\* message on a monitor whose registry holds two access points.
C22_Witness ==
    /\ op = "perform_scan"
    /\ msg = Failure("Unexpected error")
    /\ Len(self_networks.keys) = 2

\* ------------------------------------------------------ reported success

\* The finished command reported success: printed or returned its
\* [SUCCESS] message.
ReportedSuccess ==
    \/ \E k \in 1..Len(output) : output[k] = "[SUCCESS] MONITOR mode"
    \/ \E k \in 1..Len(message) : message[k] = "[SUCCESS] MANAGED mode"

\* C23 (as claimed): a monitor or managed command reports success only when
\* its mode-change command exited with status 0, and ends with an error and
\* exit status 1 when that command failed.
C23_SuccessOnlyOnSuccess ==
    sys_op \in {"MonitorCommand.execute", "ManagedCommand.execute"} =>
        /\ ReportedSuccess =>
              \E k \in 1..Len(cmds) :
                  cmds[k].cmd = "iw set type" /\ cmds[k].res = "0"
        /\ (\E k \in 1..Len(cmds) :
                  cmds[k].cmd = "iw set type" /\ cmds[k].res # "0")
            => outcome = [how |-> "exit", error |-> "SystemExit(1)"]

\* ------------------------------------------------------ session results

\* core.scan.perform_scan stands after a completed loop iteration, or has
\* returned from a finished range(loops).
IterationDone ==
    /\ session.kind = "core.scan"
    /\ \/ session.pc = "sleep"
       \/ session.pc = "scan" /\ session.i >= 1
       \/ /\ session.pc = "ended"
          /\ session.end.how = "return"
          /\ session.interrupted = ""

\* C24: after a completed iteration the accumulated results are the ranked
\* result of the latest iteration: the keys are exactly 1..N, N the size of
\* the registry, every BSSID of the registry sits under exactly one index
\* with the record the registry holds, the signal does not increase with the
\* index, and a finished session returns this dictionary.
C24_NoStaleEntries ==
    IterationDone =>
        LET D == session.results
            N == Len(self_networks.keys)
        IN  /\ Len(D.keys) = N
            /\ DOMAIN D.val = 1..N
            /\ \A k \in 1..N : D.val[k] = results[k]
            /\ \A b \in Keys(self_networks) :
                  /\ Cardinality({k \in 1..N : D.val[k].BSSID = b}) = 1
                  /\ \E k \in 1..N : D.val[k] = self_networks.val[b]
            /\ \A j, k \in 1..N :
                  j < k => D.val[j].Signal_dBm >= D.val[k].Signal_dBm
            /\ session.pc = "ended" => session.returned = D

\* A two-loop session has returned: the access point found by the second
\* scan is the stronger one and has taken index 1 from the one the first
\* scan found, which now sits under index 2.
C24_Witness ==
    /\ IterationDone
    /\ session.pc = "ended"
    /\ session.i = 2
    /\ self_networks.keys = <<"AA:BB:CC:DD:EE:01", "AA:BB:CC:DD:EE:02">>
    /\ session.returned.keys = <<1, 2>>
    /\ session.returned.val[1].BSSID = "AA:BB:CC:DD:EE:02"
    /\ session.returned.val[1].Signal_dBm = -40
    /\ session.returned.val[2].BSSID = "AA:BB:CC:DD:EE:01"
    /\ session.returned.val[2].Signal_dBm = -70

\* ------------------------------------------------------ signal and channel

\* The tokens that spell a floating-point number.
FloatTokens == {"-40.00", "-55.00", "-70.00"}

\* A signal: line whose second token is missing or spells no number.
SignalFails(line) ==
    /\ line[1] = "signal:"
    /\ Len(line) = 1 \/ line[2] \notin FloatTokens

\* C25 (as claimed): a signal: line of an open record whose second token is
\* missing or is no floating-point number leaves Signal_dBm and every other
\* field of the record as they were, and the parser does not raise on it.
C25_SignalFailureKeepsRecord ==
    [][(FieldStep /\ SignalFails(raw_output[line_no + 1])) =>
            /\ heap' = heap
            /\ parse_pc' = "loop"]_vars

\* C25 (amended): such a line leaves Signal_dBm as it was, the default or
\* the value an earlier line set, and leaves every other field as it was
\* except the cipher flags, where CCMP becomes true when the line contains
\* CCMP and TKIP when it contains TKIP; no other record changes and the
\* parser does not raise on it.
C25_SignalFailureKeepsValue ==
    [][(FieldStep /\ SignalFails(raw_output[line_no + 1])) =>
            LET line == raw_output[line_no + 1]
                net  == heap[current_net]
            IN  /\ heap'[current_net].Signal_dBm = net.Signal_dBm
                /\ heap' = [heap EXCEPT ![current_net] =
                       [net EXCEPT
                          !.CCMP = net.CCMP \/ LineHas(line, "CCMP"),
                          !.TKIP = net.TKIP \/ LineHas(line, "TKIP")]]
                /\ parse_pc' = "loop"]_vars

\* A record whose signal a first line set to -40 has been returned after a
\* signal: line without a second token: the value is still -40.
C25_Witness ==
    /\ parse_pc = "returned"
    /\ raw_output = << <<"BSS", "aa:bb:cc:dd:ee:02">>,
                       <<"signal:", "-40.00", "CCMP">>,
                       <<"signal:">> >>
    /\ Len(networks) = 1
    /\ heap[networks[1]].Signal_dBm = -40
    /\ ~heap[networks[1]].TKIP

\* The number that follows the first place of phrase in line, -1 when the
\* line has no place where the phrase is followed by a number.
NumberAfter(line, phrase) ==
    LET at == {k \in 0..(Len(line) - Len(phrase) - 1) :
                  /\ \A j \in 1..Len(phrase) : line[k + j] = phrase[j]
                  /\ LeadingDigits(line[k + Len(phrase) + 1]) >= 0}
    IN  IF at = {} THEN -1
        ELSE LET k == CHOOSE m \in at : \A n \in at : m <= n
             IN  LeadingDigits(line[k + Len(phrase) + 1])

\* The N of a line that contains 'DS Parameter set: channel <N>' or
\* '* primary channel: <N>', -1 for a line that contains neither.
ChannelIn(line) ==
    IF NumberAfter(line, DS_PHRASE) >= 0
    THEN NumberAfter(line, DS_PHRASE)
    ELSE NumberAfter(line, <<"*">> \o PRIMARY_PHRASE)

\* The channel the block of the BSS line at position p gives its record:
\* the number of its last channel line, 0 without one.
LastChannel(text, p) ==
    LET at == {j \in BlockOf(text, p) : ChannelIn(text[j]) >= 0}
    IN  IF at = {} THEN 0
        ELSE ChannelIn(text[CHOOSE j \in at : \A m \in at : m <= j])

\* C26 (as claimed): the record of every valid BSS line is returned with
\* Channel equal to the number of the last line of its block that contains
\* 'DS Parameter set: channel <N>' or '* primary channel: <N>', and with 0
\* when the block has no such line.
C26_ChannelLastWins ==
    parse_pc = "returned" =>
        \A p \in ValidAt(raw_output) :
            heap[RecordOf(raw_output, p)].Channel = LastChannel(raw_output, p)

====
